---------------------------- MODULE Spec2Model ----------------------------
(***************************************************************************)
(* Model of the ordinals-tax-tracker ledger generators.                    *)
(*                                                                         *)
(*   Policy A  generate_enhanced_ledger  (enhance_ledger_with_btc.py)      *)
(*             one global FIFO queue of lots, quantity denominated in BTC  *)
(*   Policy B  generate_tax_ledger       (generate_tax_ledger.py)          *)
(*             per-inscription FIFO queues beside a general queue          *)
(*                                                                         *)
(* A run loads the JSON record list, sorts it by timestamp and folds it    *)
(* into ledger entries, one `for tx in transactions` iteration per step.   *)
(*                                                                         *)
(* Amounts are whole numbers of the smallest unit (satoshi): the model     *)
(* computes the decimal arithmetic of the ledger exactly.  The rounding of *)
(* the Python float type is not modelled.                                  *)
(***************************************************************************)
EXTENDS Integers, Sequences, FiniteSets, TLC

\* ------------------------------------------------------------------ bounds
\* Longest input record list.
MaxTx == 3
\* Largest btc_amount of a record, in units.
MaxAmount == 2
\* Latest timestamp of a record; timestamps are 1 .. MaxTime.
MaxTime == 2

\* ------------------------------------------------------------- input values
\* What parse_timestamp returns for a value it cannot resolve (Python None);
\* a value outside the timestamps.
None == -1

\* A btc_amount that is not a number: JSON null or a text string.
NotANumber == -2

Kinds == {"RECEIVE", "SEND", "UNKNOWN"}

Timestamps == (1 .. MaxTime) \cup {None}

Amounts == 0 .. MaxAmount

\* The fee_btc the transaction details give (Policy A), in units.
ApiFees == {1}

\* The fee_btc of the records of the enhanced file (Policy B), in units.
Fees == {1}

\* inscription_id values; "" is the absent / empty id.
InscriptionIds == {"", "A", "B"}

VARIABLES
    pc,                         \* "start" | "loop" | "done" | "returned" | "raised"
    policy,                     \* "A" | "B": the generator that runs
    transactions,               \* the record list, sorted, that the loop runs over
    i,                          \* number of records the for loop has taken
    ledger_entries,
    running_btc_balance,
    cost_basis_queue,
    cost_basis_by_inscription,  \* dict: inscription_id -> list of lots
    stats,
    files,                      \* output files written so far
    runs,                       \* what the earlier runs of the generator ended with
    cpc,                        \* OrdiscanClient: "request" | "handle" | "returned" | "raised"
    page,                       \* fetch_address_activity: the page to request
    all_items,                  \* fetch_address_activity: the items collected
    retry_count,                \* _make_request: its loop counter
    attempts,                   \* _make_request: urlopen calls made by the current call
    wait_time,                  \* _make_request: the last time.sleep argument
    response,                   \* _make_request: the last answer of the server
    outcome,                    \* what the current _make_request call ended with
    raised,                     \* the exception fetch_address_activity raised, or ""
    npc,                        \* normalizer: "read" | "loaded" | "done" | "raised"
    item,                       \* normalizer: the raw record taken
    normalized                  \* normalizer: what was made of it

vars == <<pc, policy, transactions, i, ledger_entries, running_btc_balance,
          cost_basis_queue, cost_basis_by_inscription, stats, files, runs,
          cpc, page, all_items, retry_count, attempts, wait_time, response,
          outcome, raised, npc, item, normalized>>

\* The variables of the reading of one raw record.
normalizer_vars == <<npc, item, normalized>>

\* The variables of the FIFO ledger generators.
fold_vars == <<pc, policy, transactions, i, ledger_entries, running_btc_balance,
               cost_basis_queue, cost_basis_by_inscription, stats, files, runs>>

\* The variables of the ledger generators.
ledger_vars == <<fold_vars, normalizer_vars>>

\* The variables of the API client.
client_vars == <<cpc, page, all_items, retry_count, attempts, wait_time, response,
                 outcome, raised>>

\* What one run of a generator does not write.
others == <<runs, client_vars, normalizer_vars>>

\* ------------------------------------------------------------------ helpers
RECURSIVE SumSeq(_)
SumSeq(s) == IF s = <<>> THEN 0 ELSE Head(s) + SumSeq(Tail(s))

Abs(x) == IF x < 0 THEN -x ELSE x

\* A parser that resolves every value to some datetime.
ParseAnything(ts) == IF ts = None THEN 0 ELSE ts

\* parse_timestamp: a datetime, or None when the value does not parse.
parse_timestamp(ts) == IF ts = None THEN None ELSE ts

\* The sort key: parse_timestamp(...) or datetime.min; 0 precedes every timestamp.
SortKey(tx) == IF parse_timestamp(tx.timestamp) = None THEN 0 ELSE parse_timestamp(tx.timestamp)

\* list.sort is stable: insertion after the last element whose key is not greater.
RECURSIVE InsertSorted(_, _)
InsertSorted(tx, s) ==
    IF s = <<>> THEN <<tx>>
    ELSE IF SortKey(tx) < SortKey(Head(s)) THEN <<tx>> \o s
    ELSE <<Head(s)>> \o InsertSorted(tx, Tail(s))

\* The list left in file order.
Unsorted(s) == s

RECURSIVE SortByTimestamp(_)
SortByTimestamp(s) ==
    IF s = <<>> THEN <<>>
    ELSE InsertSorted(s[Len(s)], SortByTimestamp(SubSeq(s, 1, Len(s) - 1)))

InitStats ==
    [total_received |-> 0, total_sent |-> 0,
     total_btc_received |-> 0, total_btc_sent |-> 0, total_fees_paid |-> 0,
     total_gains |-> 0, total_losses |-> 0]


\* ------------------------------------------------- the record list on disk
\* A record of <address>_raw.json as Policy A reads it; Policy A overwrites
\* btc_amount and fee_btc of every record before the fold.
RawRecordsA ==
    [type : Kinds, timestamp : Timestamps, inscription_id : {""}, txid : {"t1"},
     btc_amount : {0}, fee_btc : {0}]

\* The record lists of n records over the record set R.
RecordLists(R, n) == [1 .. n -> R]

\* ------------------------------------------------------------ Policy A
\* extract_btc_amount_from_tx_details: the (btc_amount, fee_btc) pairs the
\* transaction details can yield for a record of type tx_type.  RECEIVE: the
\* value received; SEND: the net value sent; any other type: 0.0.
ExtractedAmounts(tx_type) ==
    IF tx_type \in {"RECEIVE", "SEND"} THEN Amounts \X ApiFees ELSE {0} \X ApiFees

\* enhance_transactions_with_btc (api_key given) or the 0.0 defaults (no key):
\* the record lists the fold can be handed for the raw list txs.
EnhancedLists(txs, api_key) ==
    IF api_key
    THEN {[k \in 1 .. Len(txs) |->
              [txs[k] EXCEPT !.btc_amount = f[k][1], !.fee_btc = f[k][2]]] :
          f \in {g \in [1 .. Len(txs) -> Amounts \X ApiFees] :
                    \A k \in 1 .. Len(txs) : g[k] \in ExtractedAmounts(txs[k].type)}}
    ELSE {[k \in 1 .. Len(txs) |-> [txs[k] EXCEPT !.btc_amount = 0, !.fee_btc = 0]]}

\* generate_enhanced_ledger up to the for loop: load, the empty-input return,
\* the enhancement, the sort, and the initial fold state.
StartA ==
    /\ pc = "start" /\ policy = "A"
    /\ \E n \in 0 .. MaxTx : \E raw \in RecordLists(RawRecordsA, n) :
         IF raw = <<>>
         THEN /\ pc' = "returned"
              /\ transactions' = raw
         ELSE /\ pc' = "loop"
              /\ \E api_key \in BOOLEAN :
                   \E enhanced \in EnhancedLists(raw, api_key) :
                      transactions' = SortByTimestamp(enhanced)
    /\ i' = 0
    /\ ledger_entries' = <<>>
    /\ running_btc_balance' = 0
    /\ cost_basis_queue' = <<>>
    /\ stats' = InitStats
    /\ UNCHANGED <<policy, cost_basis_by_inscription, files>>
    /\ UNCHANGED others

\* The lot with no cost basis recorded.
LotWithoutBasis(tx_date, btc_amount, idx) ==
    [date |-> tx_date, amount |-> btc_amount, cost_basis |-> 0, idx |-> idx]

\* The lot a RECEIVE appends; idx is the position of its record in the sorted
\* list (the identity of the Python dict).
NewLotA(tx_date, btc_amount, idx) ==
    [date |-> tx_date, amount |-> btc_amount, cost_basis |-> btc_amount, idx |-> idx]

\* oldest = cost_basis_queue[0]
Oldest(queue) == Head(queue)

\* cost_basis_queue.pop(0)
PopOldest(queue) == Tail(queue)

\* The whole cost basis of the lot, whatever the portion sold.
WholeBasis(lot, remaining_to_sell) == lot.cost_basis

\* oldest['cost_basis'] * portion, with portion = remaining_to_sell / oldest['amount'].
\* The quotient is exact whenever cost_basis = amount.
BasisPortion(lot, remaining_to_sell) ==
    (lot.cost_basis * remaining_to_sell) \div lot.amount

\* The partial use that writes off the whole cost basis of the lot.
PartialUseDropBasis(lot, remaining_to_sell) ==
    [lot EXCEPT !.amount = @ - remaining_to_sell, !.cost_basis = 0]

\* The partial use that takes the quantity and leaves the cost basis.
PartialUseKeepBasis(lot, remaining_to_sell) ==
    [lot EXCEPT !.amount = @ - remaining_to_sell]

\* The body of the partial-use branch on the oldest lot.
PartialUse(lot, remaining_to_sell) ==
    [lot EXCEPT !.amount = @ - remaining_to_sell,
                !.cost_basis = @ - BasisPortion(lot, remaining_to_sell)]

\* The loop with `<` for `<=` in the test of the full-use branch.
RECURSIVE FifoMatchStrict(_)
FifoMatchStrict(m) ==
    IF m.remaining_to_sell > 0 /\ m.queue # <<>>
    THEN LET oldest == Oldest(m.queue) IN
         IF oldest.amount < m.remaining_to_sell
         THEN FifoMatchStrict([remaining_to_sell |-> m.remaining_to_sell - oldest.amount,
                               queue |-> PopOldest(m.queue),
                               cost_basis_used |-> m.cost_basis_used + oldest.cost_basis,
                               gain_loss |-> m.gain_loss + (oldest.amount - oldest.cost_basis),
                               iterations |-> m.iterations + 1])
         ELSE FifoMatchStrict([remaining_to_sell |-> 0,
                               queue |-> <<PartialUse(oldest, m.remaining_to_sell)>>
                                         \o Tail(m.queue),
                               cost_basis_used |-> m.cost_basis_used
                                                   + BasisPortion(oldest, m.remaining_to_sell),
                               gain_loss |-> m.gain_loss
                                             + (m.remaining_to_sell
                                                - BasisPortion(oldest, m.remaining_to_sell)),
                               iterations |-> m.iterations + 1])
    ELSE m

\* The while loop of a SEND, from the state m = [remaining_to_sell, queue,
\* cost_basis_used, gain_loss, iterations] to the state the loop ends in.
RECURSIVE FifoMatch(_)
FifoMatch(m) ==
    IF m.remaining_to_sell > 0 /\ m.queue # <<>>
    THEN LET oldest == Oldest(m.queue) IN
         IF oldest.amount <= m.remaining_to_sell
         THEN FifoMatch([remaining_to_sell |-> m.remaining_to_sell - oldest.amount,
                         queue |-> PopOldest(m.queue),
                         cost_basis_used |-> m.cost_basis_used + oldest.cost_basis,
                         gain_loss |-> m.gain_loss + (oldest.amount - oldest.cost_basis),
                         iterations |-> m.iterations + 1])
         ELSE FifoMatch([remaining_to_sell |-> 0,
                         queue |-> <<PartialUse(oldest, m.remaining_to_sell)>> \o Tail(m.queue),
                         cost_basis_used |-> m.cost_basis_used
                                             + BasisPortion(oldest, m.remaining_to_sell),
                         gain_loss |-> m.gain_loss
                                       + (m.remaining_to_sell
                                          - BasisPortion(oldest, m.remaining_to_sell)),
                         iterations |-> m.iterations + 1])
    ELSE m

\* The SEND with the leftover booked as a loss.
SendALeftoverAsLoss(queue, btc_amount) ==
    LET m == FifoMatch([remaining_to_sell |-> btc_amount, queue |-> queue,
                        cost_basis_used |-> 0, gain_loss |-> 0, iterations |-> 0])
    IN [m EXCEPT !.gain_loss = IF m.remaining_to_sell > 0
                               THEN @ - m.remaining_to_sell ELSE @]

\* The SEND whose loop tests its condition after the body: one pass is made on
\* a non-empty queue even when there is nothing to sell.
SendATestAfterBody(queue, btc_amount) ==
    LET first == IF btc_amount <= 0 /\ queue # <<>>
                 THEN [remaining_to_sell |-> 0,
                       queue |-> <<PartialUse(Oldest(queue), btc_amount)>> \o Tail(queue),
                       cost_basis_used |-> BasisPortion(Oldest(queue), btc_amount),
                       gain_loss |-> btc_amount - BasisPortion(Oldest(queue), btc_amount),
                       iterations |-> 1]
                 ELSE [remaining_to_sell |-> btc_amount, queue |-> queue,
                       cost_basis_used |-> 0, gain_loss |-> 0, iterations |-> 0]
        m == FifoMatch(first)
    IN [m EXCEPT !.gain_loss = IF m.remaining_to_sell > 0
                               THEN @ + m.remaining_to_sell ELSE @]

\* The SEND without the leftover booked as gain.
SendANoLeftover(queue, btc_amount) ==
    FifoMatch([remaining_to_sell |-> btc_amount, queue |-> queue,
               cost_basis_used |-> 0, gain_loss |-> 0, iterations |-> 0])

\* A SEND of btc_amount against queue: the loop, then the leftover booked as gain.
SendA(queue, btc_amount) ==
    LET m == FifoMatch([remaining_to_sell |-> btc_amount, queue |-> queue,
                        cost_basis_used |-> 0, gain_loss |-> 0, iterations |-> 0])
    IN [m EXCEPT !.gain_loss = IF m.remaining_to_sell > 0
                               THEN @ + m.remaining_to_sell ELSE @]

\* The balance with the credit left out.
DebitOnlyBalance(balance, debit_btc, credit_btc) == balance + debit_btc

\* running_btc_balance += (debit_btc - credit_btc)
UpdateBalance(balance, debit_btc, credit_btc) == balance + (debit_btc - credit_btc)

\* The SEND branch with the loss added signed.
SendStatsSignedLoss(st, credit_btc, fee_btc, gain_loss) ==
    [st EXCEPT !.total_sent = @ + 1,
               !.total_btc_sent = @ + credit_btc,
               !.total_fees_paid = @ + fee_btc,
               !.total_gains = IF gain_loss > 0 THEN @ + gain_loss ELSE @,
               !.total_losses = IF gain_loss > 0 THEN @ ELSE @ + gain_loss]

\* The stats updates of the SEND branch.
SendStats(st, credit_btc, fee_btc, gain_loss) ==
    [st EXCEPT !.total_sent = @ + 1,
               !.total_btc_sent = @ + credit_btc,
               !.total_fees_paid = @ + fee_btc,
               !.total_gains = IF gain_loss > 0 THEN @ + gain_loss ELSE @,
               !.total_losses = IF gain_loss > 0 THEN @ ELSE @ + Abs(gain_loss)]

\* The stats updates of the RECEIVE branch.
ReceiveStats(st, debit_btc) ==
    [st EXCEPT !.total_received = @ + 1, !.total_btc_received = @ + debit_btc]

\* The entry that books the record's btc_amount as its debit, whatever the type.
EntryAmountAsDebit(tx, tx_date, debit_btc, credit_btc, balance, cost_basis, gain_loss) ==
    [date |-> tx_date, type |-> tx.type,
     debit_btc |-> tx.btc_amount, credit_btc |-> credit_btc, fee_btc |-> tx.fee_btc,
     balance_btc |-> balance, cost_basis |-> cost_basis, gain_loss |-> gain_loss,
     inscription_id |-> tx.inscription_id, txid |-> tx.txid]

\* One ledger entry (the fields the reports print).
Entry(tx, tx_date, debit_btc, credit_btc, balance, cost_basis, gain_loss) ==
    [date |-> tx_date, type |-> tx.type,
     debit_btc |-> debit_btc, credit_btc |-> credit_btc, fee_btc |-> tx.fee_btc,
     balance_btc |-> balance, cost_basis |-> cost_basis, gain_loss |-> gain_loss,
     inscription_id |-> tx.inscription_id, txid |-> tx.txid]

\* One iteration of `for tx in transactions` of generate_enhanced_ledger.
StepA ==
    /\ pc = "loop" /\ policy = "A"
    /\ i < Len(transactions)
    /\ i' = i + 1
    /\ LET tx == transactions[i + 1]
           tx_date == parse_timestamp(tx.timestamp)
           btc_amount == tx.btc_amount
       IN IF tx_date = None
          THEN UNCHANGED <<ledger_entries, running_btc_balance, cost_basis_queue, stats>>
          ELSE CASE tx.type = "RECEIVE" ->
                    /\ cost_basis_queue' =
                          IF btc_amount > 0
                          THEN Append(cost_basis_queue, NewLotA(tx_date, btc_amount, i + 1))
                          ELSE cost_basis_queue
                    /\ stats' = ReceiveStats(stats, btc_amount)
                    /\ running_btc_balance' = UpdateBalance(running_btc_balance, btc_amount, 0)
                    /\ ledger_entries' = Append(ledger_entries,
                          Entry(tx, tx_date, btc_amount, 0,
                                UpdateBalance(running_btc_balance, btc_amount, 0),
                                btc_amount, 0))
                 [] tx.type = "SEND" ->
                    LET m == SendA(cost_basis_queue, btc_amount) IN
                    /\ cost_basis_queue' = m.queue
                    /\ stats' = SendStats(stats, btc_amount, tx.fee_btc, m.gain_loss)
                    /\ running_btc_balance' = UpdateBalance(running_btc_balance, 0, btc_amount)
                    /\ ledger_entries' = Append(ledger_entries,
                          Entry(tx, tx_date, 0, btc_amount,
                                UpdateBalance(running_btc_balance, 0, btc_amount),
                                m.cost_basis_used, m.gain_loss))
                 [] OTHER ->
                    /\ UNCHANGED <<cost_basis_queue, stats>>
                    /\ running_btc_balance' = UpdateBalance(running_btc_balance, 0, 0)
                    /\ ledger_entries' = Append(ledger_entries,
                          Entry(tx, tx_date, 0, 0,
                                UpdateBalance(running_btc_balance, 0, 0),
                                btc_amount, 0))
    /\ UNCHANGED <<pc, policy, transactions, cost_basis_by_inscription, files>>
    /\ UNCHANGED others

\* After the loop: the CSV is written, then the summary, whose Period line
\* reads ledger_entries[0] and raises IndexError when there is no entry.
FinishA ==
    /\ pc = "loop" /\ policy = "A"
    /\ i = Len(transactions)
    /\ IF ledger_entries = <<>>
       THEN /\ files' = files \cup {"csv", "summary_partial"}
            /\ pc' = "raised"
       ELSE /\ files' = files \cup {"csv", "summary"}
            /\ pc' = "done"
    /\ UNCHANGED <<policy, transactions, i, ledger_entries, running_btc_balance,
                   cost_basis_queue, cost_basis_by_inscription, stats>>
    /\ UNCHANGED others

\* ------------------------------------------------------------ Policy B
\* The records of <address>_enhanced.json that Policy B is run on.  "A" is the
\* inscription under study (every amount and timestamp, and a second txid);
\* "B" is another inscription and "" the absent id, received and sent at the
\* first timestamp.  A record whose timestamp does not parse is skipped before
\* any other field is read, so one such record stands for all.  The last
\* record carries a btc_amount that is not a number.
RawRecordsB ==
    (  [type : {"RECEIVE"}, timestamp : 1 .. MaxTime, inscription_id : {"A"},
        txid : {"t1"}, btc_amount : Amounts, fee_btc : Fees]
     \cup
       [type : {"RECEIVE"}, timestamp : 1 .. MaxTime, inscription_id : {"A"},
        txid : {"t2"}, btc_amount : {1}, fee_btc : Fees]
     \cup
       [type : {"RECEIVE"}, timestamp : {1}, inscription_id : {"B", ""},
        txid : {"t1"}, btc_amount : {1}, fee_btc : Fees]
     \cup
       [type : {"SEND"}, timestamp : 1 .. MaxTime, inscription_id : {"A"},
        txid : {"t3"}, btc_amount : Amounts, fee_btc : Fees]
     \cup
       [type : {"SEND"}, timestamp : {1}, inscription_id : {"B", ""},
        txid : {"t3"}, btc_amount : {1}, fee_btc : Fees]
     \cup
       [type : {"UNKNOWN"}, timestamp : {1}, inscription_id : {"A"},
        txid : {"t3"}, btc_amount : {1}, fee_btc : Fees]
     \cup
       [type : {"RECEIVE"}, timestamp : {None}, inscription_id : {"A"},
        txid : {"t1"}, btc_amount : {1}, fee_btc : Fees]
     \cup
       [type : {"RECEIVE"}, timestamp : {1}, inscription_id : {"A"},
        txid : {"t1"}, btc_amount : {NotANumber}, fee_btc : Fees] )

\* generate_tax_ledger up to the for loop: load, the empty-input return, the
\* sort, and the initial fold state.
StartB ==
    /\ pc = "start" /\ policy = "B"
    /\ \E n \in 0 .. MaxTx : \E raw \in RecordLists(RawRecordsB, n) :
         IF raw = <<>>
         THEN /\ pc' = "returned"
              /\ transactions' = raw
         ELSE /\ pc' = "loop"
              /\ transactions' = SortByTimestamp(raw)
    /\ i' = 0
    /\ ledger_entries' = <<>>
    /\ running_btc_balance' = 0
    /\ cost_basis_queue' = <<>>
    /\ cost_basis_by_inscription' = <<>>
    /\ stats' = InitStats
    /\ UNCHANGED <<policy, files>>
    /\ UNCHANGED others

\* The lot appended to the general queue.
QueueLotB(tx_date, debit_btc, inscription_id, txid, idx) ==
    [date |-> tx_date, cost_basis |-> debit_btc,
     inscription_id |-> inscription_id, txid |-> txid, idx |-> idx]

\* The lot appended to cost_basis_by_inscription[inscription_id].
InscriptionLotB(tx_date, debit_btc, txid, idx) ==
    [date |-> tx_date, cost_basis |-> debit_btc, txid |-> txid, idx |-> idx]

\* The guard without the test of the amount.
AnyAmountRecordsLot(debit_btc, inscription_id) == inscription_id # ""

\* The guard of the RECEIVE branch that records a lot.
RecordsLotB(debit_btc, inscription_id) == debit_btc > 0 /\ inscription_id # ""

\* cost_basis_by_inscription after the RECEIVE appended lot under inscription_id
\* (the key is created when absent).
PushInscription(by_inscription, inscription_id, lot) ==
    [k \in DOMAIN by_inscription \cup {inscription_id} |->
        IF k = inscription_id
        THEN IF k \in DOMAIN by_inscription
             THEN Append(by_inscription[k], lot) ELSE <<lot>>
        ELSE by_inscription[k]]

\* The guard of the SEND branch that pops a lot.
MatchesLotB(by_inscription, inscription_id) ==
    /\ inscription_id # ""
    /\ inscription_id \in DOMAIN by_inscription
    /\ by_inscription[inscription_id] # <<>>

\* purchase = cost_basis_by_inscription[inscription_id].pop(0): the lot popped.
Purchase(by_inscription, inscription_id) == Head(by_inscription[inscription_id])

\* cost_basis_by_inscription after a pop() of the last lot.
PopLastInscription(by_inscription, inscription_id) ==
    [by_inscription EXCEPT ![inscription_id] = SubSeq(@, 1, Len(@) - 1)]

\* cost_basis_by_inscription with the lot left in its queue.
NoPopInscription(by_inscription, inscription_id) == by_inscription

\* cost_basis_by_inscription after that pop(0).
PopInscription(by_inscription, inscription_id) ==
    [by_inscription EXCEPT ![inscription_id] = Tail(@)]

\* The general queue rebuilt without the entries of the purchase.
RemoveFromQueue(queue, inscription_id, purchase) ==
    SelectSeq(queue, LAMBDA cb : ~(cb.inscription_id = inscription_id
                                   /\ cb.txid = purchase.txid))

\* The difference taken the other way round.
ReversedGainLoss(credit_btc, cost_basis_used) == cost_basis_used - credit_btc

\* gain_loss = credit_btc - cost_basis_used
GainLossB(credit_btc, cost_basis_used) == credit_btc - cost_basis_used

\* No gain booked.
ZeroGainLoss(credit_btc) == 0

\* gain_loss = credit_btc, in the three branches that find no lot.
UnmatchedGainLoss(credit_btc) == credit_btc

\* The tests and sums of a RECEIVE or a SEND raise TypeError on a btc_amount
\* that is not a number (`debit_btc > 0`, `credit_btc - cost_basis_used`,
\* `stats['total_btc_sent'] += credit_btc`); the else branch never reads it.
RaisesTypeError(tx_type, btc_amount) ==
    tx_type \in {"RECEIVE", "SEND"} /\ btc_amount = NotANumber

\* One iteration of `for tx in transactions` of generate_tax_ledger.  A
\* TypeError leaves the function: its local state is dropped as it is.
StepB ==
    /\ pc = "loop" /\ policy = "B"
    /\ i < Len(transactions)
    /\ i' = i + 1
    /\ LET tx == transactions[i + 1]
           tx_date == parse_timestamp(tx.timestamp)
           btc_amount == tx.btc_amount
           inscription_id == tx.inscription_id
       IN IF tx_date = None
          THEN UNCHANGED <<pc, ledger_entries, running_btc_balance, cost_basis_queue,
                           cost_basis_by_inscription, stats>>
          ELSE IF RaisesTypeError(tx.type, btc_amount)
          THEN /\ pc' = "raised"
               /\ UNCHANGED <<ledger_entries, running_btc_balance, cost_basis_queue,
                              cost_basis_by_inscription, stats>>
          ELSE /\ pc' = pc
               /\ CASE tx.type = "RECEIVE" ->
                         /\ IF RecordsLotB(btc_amount, inscription_id)
                            THEN /\ cost_basis_queue' = Append(cost_basis_queue,
                                        QueueLotB(tx_date, btc_amount, inscription_id, tx.txid, i + 1))
                                 /\ cost_basis_by_inscription' =
                                        PushInscription(cost_basis_by_inscription, inscription_id,
                                            InscriptionLotB(tx_date, btc_amount, tx.txid, i + 1))
                            ELSE UNCHANGED <<cost_basis_queue, cost_basis_by_inscription>>
                         /\ stats' = ReceiveStats(stats, btc_amount)
                         /\ running_btc_balance' = UpdateBalance(running_btc_balance, btc_amount, 0)
                         /\ ledger_entries' = Append(ledger_entries,
                               Entry(tx, tx_date, btc_amount, 0,
                                     UpdateBalance(running_btc_balance, btc_amount, 0),
                                     btc_amount, 0))
                      [] tx.type = "SEND" ->
                         LET matched == MatchesLotB(cost_basis_by_inscription, inscription_id)
                             purchase == Purchase(cost_basis_by_inscription, inscription_id)
                             cost_basis_used == IF matched THEN purchase.cost_basis ELSE 0
                             gain_loss == IF matched THEN GainLossB(btc_amount, cost_basis_used)
                                          ELSE UnmatchedGainLoss(btc_amount)
                         IN
                         /\ IF matched
                            THEN /\ cost_basis_by_inscription' =
                                        PopInscription(cost_basis_by_inscription, inscription_id)
                                 /\ cost_basis_queue' =
                                        RemoveFromQueue(cost_basis_queue, inscription_id, purchase)
                            ELSE UNCHANGED <<cost_basis_queue, cost_basis_by_inscription>>
                         /\ stats' = SendStats(stats, btc_amount, tx.fee_btc, gain_loss)
                         /\ running_btc_balance' = UpdateBalance(running_btc_balance, 0, btc_amount)
                         /\ ledger_entries' = Append(ledger_entries,
                               Entry(tx, tx_date, 0, btc_amount,
                                     UpdateBalance(running_btc_balance, 0, btc_amount),
                                     cost_basis_used, gain_loss))
                      [] OTHER ->
                         /\ UNCHANGED <<cost_basis_queue, cost_basis_by_inscription, stats>>
                         /\ running_btc_balance' = UpdateBalance(running_btc_balance, 0, 0)
                         /\ ledger_entries' = Append(ledger_entries,
                               Entry(tx, tx_date, 0, 0,
                                     UpdateBalance(running_btc_balance, 0, 0), 0, 0))
    /\ UNCHANGED <<policy, transactions, files>>
    /\ UNCHANGED others

\* After the loop: the CSV is written, then the summary, whose Period line
\* reads ledger_entries[0] and raises IndexError when there is no entry.
FinishB ==
    /\ pc = "loop" /\ policy = "B"
    /\ i = Len(transactions)
    /\ IF ledger_entries = <<>>
       THEN /\ files' = files \cup {"csv", "summary_partial"}
            /\ pc' = "raised"
       ELSE /\ files' = files \cup {"csv", "summary"}
            /\ pc' = "done"
    /\ UNCHANGED <<policy, transactions, i, ledger_entries, running_btc_balance,
                   cost_basis_queue, cost_basis_by_inscription, stats>>
    /\ UNCHANGED others

\* ------------------------------------------------------- unit lots (U)
\* generate_ledger_with_gains_losses of enhance_with_btc_amounts.py: one global
\* queue of lots of quantity 1.  The records are those enhance_transactions_
\* with_btc returns: btc_amount is received_btc for a RECEIVE, sent_btc for a
\* SEND and 0.0 otherwise.  Inscription "A" is received at every timestamp
\* and amount, "B" once; the SENDs come at the first timestamp, so that the
\* file order decides whether a SEND precedes a RECEIVE.
EnhancedRecordsU ==
    (  [type : {"RECEIVE"}, timestamp : 1 .. MaxTime, inscription_id : {"A"},
        txid : {"t1"}, btc_amount : Amounts, fee_btc : ApiFees]
     \cup
       [type : {"RECEIVE"}, timestamp : {1}, inscription_id : {"B"},
        txid : {"t2"}, btc_amount : {1}, fee_btc : ApiFees]
     \cup
       [type : {"SEND"}, timestamp : {1}, inscription_id : {"A"},
        txid : {"t3"}, btc_amount : Amounts, fee_btc : ApiFees]
     \cup
       [type : {"SEND"}, timestamp : {1}, inscription_id : {"B"},
        txid : {"t3"}, btc_amount : {1}, fee_btc : ApiFees]
     \cup
       [type : {"UNKNOWN"}, timestamp : {1}, inscription_id : {"A"},
        txid : {"t3"}, btc_amount : {0}, fee_btc : ApiFees]
     \cup
       [type : {"RECEIVE"}, timestamp : {None}, inscription_id : {"A"},
        txid : {"t1"}, btc_amount : {1}, fee_btc : ApiFees] )

\* tx.get('received_btc', 0.0) and tx.get('sent_btc', 0.0) of an enhanced record.
received_btc(tx) == IF tx.type = "RECEIVE" THEN tx.btc_amount ELSE 0

sent_btc(tx) == IF tx.type = "SEND" THEN tx.btc_amount ELSE 0

\* btc_amount if btc_amount > 0 else other
AmountOrElse(btc_amount, other) == IF btc_amount > 0 THEN btc_amount ELSE other

\* generate_ledger_with_gains_losses up to the for loop.
StartU ==
    /\ pc = "start" /\ policy = "U"
    /\ \E n \in 0 .. MaxTx : \E enhanced \in RecordLists(EnhancedRecordsU, n) :
         IF enhanced = <<>>
         THEN /\ pc' = "returned"
              /\ transactions' = enhanced
         ELSE /\ pc' = "loop"
              /\ transactions' = SortByTimestamp(enhanced)
    /\ i' = 0
    /\ ledger_entries' = <<>>
    /\ running_btc_balance' = 0
    /\ cost_basis_queue' = <<>>
    /\ stats' = InitStats
    /\ UNCHANGED <<policy, cost_basis_by_inscription, files>>
    /\ UNCHANGED others

\* The lot whose quantity is the BTC amount received.
LotOfBtcQuantity(tx_date, debit_btc, inscription_id, txid, idx) ==
    [date |-> tx_date, amount |-> debit_btc, cost_basis |-> debit_btc,
     inscription_id |-> inscription_id, txid |-> txid, idx |-> idx]

\* The lot a RECEIVE appends: 'amount': 1.0, one inscription.
UnitLot(tx_date, debit_btc, inscription_id, txid, idx) ==
    [date |-> tx_date, amount |-> 1, cost_basis |-> debit_btc,
     inscription_id |-> inscription_id, txid |-> txid, idx |-> idx]

\* The while loop of a SEND, from m = [remaining_to_sell, queue,
\* cost_basis_used, gain_loss, credit_btc, full_uses, partial_uses] to the
\* state the loop ends in; the last two count the passes through each branch.
RECURSIVE UnitMatch(_)
UnitMatch(m) ==
    IF m.remaining_to_sell > 0 /\ m.queue # <<>>
    THEN LET oldest == Oldest(m.queue) IN
         IF oldest.amount <= m.remaining_to_sell
         THEN UnitMatch([m EXCEPT
                  !.cost_basis_used = @ + oldest.cost_basis,
                  !.gain_loss = @ + (m.credit_btc - oldest.cost_basis),
                  !.remaining_to_sell = @ - oldest.amount,
                  !.queue = PopOldest(@),
                  !.full_uses = @ + 1])
         ELSE UnitMatch([m EXCEPT
                  !.cost_basis_used = @ + BasisPortion(oldest, m.remaining_to_sell),
                  !.gain_loss = @ + (m.credit_btc
                                     - BasisPortion(oldest, m.remaining_to_sell)),
                  !.queue = <<PartialUse(oldest, m.remaining_to_sell)>> \o Tail(@),
                  !.remaining_to_sell = 0,
                  !.partial_uses = @ + 1])
    ELSE m

\* A SEND of one inscription for credit_btc against queue: the loop, then the
\* whole proceeds booked as gain when nothing was matched.
SendU(queue, credit_btc) ==
    LET m == UnitMatch([remaining_to_sell |-> 1, queue |-> queue,
                        cost_basis_used |-> 0, gain_loss |-> 0,
                        credit_btc |-> credit_btc,
                        full_uses |-> 0, partial_uses |-> 0])
    IN [m EXCEPT !.gain_loss = IF m.remaining_to_sell > 0
                               THEN @ + credit_btc ELSE @]

\* One iteration of `for tx in transactions` of generate_ledger_with_gains_losses.
StepU ==
    /\ pc = "loop" /\ policy = "U"
    /\ i < Len(transactions)
    /\ i' = i + 1
    /\ LET tx == transactions[i + 1]
           tx_date == parse_timestamp(tx.timestamp)
       IN IF tx_date = None
          THEN UNCHANGED <<ledger_entries, running_btc_balance, cost_basis_queue, stats>>
          ELSE CASE tx.type = "RECEIVE" ->
                    LET debit_btc == AmountOrElse(tx.btc_amount, received_btc(tx)) IN
                    /\ cost_basis_queue' =
                          IF debit_btc > 0
                          THEN Append(cost_basis_queue,
                                      UnitLot(tx_date, debit_btc, tx.inscription_id,
                                              tx.txid, i + 1))
                          ELSE cost_basis_queue
                    /\ stats' = ReceiveStats(stats, debit_btc)
                    /\ running_btc_balance' = UpdateBalance(running_btc_balance, debit_btc, 0)
                    /\ ledger_entries' = Append(ledger_entries,
                          Entry(tx, tx_date, debit_btc, 0,
                                UpdateBalance(running_btc_balance, debit_btc, 0),
                                debit_btc, 0))
                 [] tx.type = "SEND" ->
                    LET credit_btc == AmountOrElse(tx.btc_amount, sent_btc(tx))
                        m == SendU(cost_basis_queue, credit_btc) IN
                    /\ cost_basis_queue' = m.queue
                    /\ stats' = SendStats(stats, credit_btc, tx.fee_btc, m.gain_loss)
                    /\ running_btc_balance' = UpdateBalance(running_btc_balance, 0, credit_btc)
                    /\ ledger_entries' = Append(ledger_entries,
                          Entry(tx, tx_date, 0, credit_btc,
                                UpdateBalance(running_btc_balance, 0, credit_btc),
                                m.cost_basis_used, m.gain_loss))
                 [] OTHER ->
                    /\ UNCHANGED <<cost_basis_queue, stats>>
                    /\ running_btc_balance' = UpdateBalance(running_btc_balance, 0, 0)
                    /\ ledger_entries' = Append(ledger_entries,
                          Entry(tx, tx_date, 0, 0,
                                UpdateBalance(running_btc_balance, 0, 0), 0, 0))
    /\ UNCHANGED <<pc, policy, transactions, cost_basis_by_inscription, files>>
    /\ UNCHANGED others

\* After the loop: the CSV is written, then the summary, whose Period line
\* reads ledger_entries[0] and raises IndexError when there is no entry.
FinishU ==
    /\ pc = "loop" /\ policy = "U"
    /\ i = Len(transactions)
    /\ IF ledger_entries = <<>>
       THEN /\ files' = files \cup {"csv", "summary_partial"}
            /\ pc' = "raised"
       ELSE /\ files' = files \cup {"csv", "summary"}
            /\ pc' = "done"
    /\ UNCHANGED <<policy, transactions, i, ledger_entries, running_btc_balance,
                   cost_basis_queue, cost_basis_by_inscription, stats>>
    /\ UNCHANGED others

\* ------------------------------------------------------ OrdiscanClient
\* Most pages the server holds, and most items on one page.
MaxPages == 2

MaxItems == 1

\* def _make_request(self, url, max_retries=5)
max_retries == 5

\* wait_time = min(retry_after, 60)
WaitCap == 60

\* The answer that is no HTTP status: urllib.error.URLError.
NetworkError == 0

\* What urlopen can end with: 200, a 2xx that is not 200, and the statuses
\* urllib raises as HTTPError.
Statuses == {200, 204, 401, 403, 429, 500, NetworkError}

\* The Retry-After header of a 429: absent, an integer below and above the
\* cap, a negative integer, and text that int() does not take.
RetryAfterHeaders == {None, 1, 120, -5, NotANumber}

\* The items of page p, told apart by page and position.
PageItems(p, n) == [k \in 1 .. n |-> [page |-> p, k |-> k]]

\* The bodies json.loads can return for page p: a dict that holds its items
\* under 'data', 'results', 'items' or under none of them, with 'has_more'
\* true, false or absent and 'next' present or absent; a list; anything else.
Bodies(p) ==
    (  [format : {"dict"}, key : {"data", "results", "items"},
        items : {PageItems(p, n) : n \in 0 .. MaxItems},
        has_more : {"true", "false", "absent"}, next : {"url", "absent"}]
     \cup
       [format : {"dict"}, key : {"absent"}, items : {<<>>},
        has_more : {"true", "false", "absent"}, next : {"url", "absent"}]
     \cup
       [format : {"list"}, key : {"absent"},
        items : {PageItems(p, n) : n \in 0 .. MaxItems},
        has_more : {"absent"}, next : {"absent"}]
     \cup
       [format : {"other"}, key : {"absent"}, items : {<<>>},
        has_more : {"absent"}, next : {"absent"}] )

NoBody == [format |-> "none", key |-> "absent", items |-> <<>>,
           has_more |-> "absent", next |-> "absent"]

\* items = data.get('data', data.get('results', data.get('items', []))), or
\* the list itself.
Items(data) == IF data.format = "dict" /\ data.key = "absent" THEN <<>> ELSE data.items

\* The dict whose 'next' stands for has_more even when 'has_more' is given.
HasMoreFromNext(data) ==
    IF data.format = "dict" THEN data.next # "absent" ELSE Len(data.items) > 0

\* has_more = data.get('has_more', data.get('next', None) is not None) for a
\* dict; len(items) > 0 for a list.
HasMore(data) ==
    IF data.format = "dict"
    THEN IF data.has_more = "absent" THEN data.next # "absent"
         ELSE data.has_more = "true"
    ELSE Len(data.items) > 0

\* The body tells the loop to go on to the next page.
GoesOn(data) == Items(data) # <<>> /\ HasMore(data)

\* What the server can answer to a request for page p: it holds MaxPages pages
\* at most, so that page MaxPages is not followed by another.
Responses(p) ==
    [status : Statuses \ {200, 429}, retry_after : {None}, body : {NoBody}]
    \cup [status : {429}, retry_after : RetryAfterHeaders, body : {NoBody}]
    \cup [status : {200}, retry_after : {None},
          body : {d \in Bodies(p) : p < MaxPages \/ ~GoesOn(d)}]

NoResponse == [status |-> None, retry_after |-> None, body |-> NoBody]

\* The wait without the cap.
UncappedWait(retry_after, count) == IF retry_after = None THEN 2 ^ count ELSE retry_after

\* retry_after = int(headers.get('Retry-After', 2 ** retry_count));
\* wait_time = min(retry_after, 60)
WaitTime(retry_after, count) ==
    LET after == IF retry_after = None THEN 2 ^ count ELSE retry_after
    IN IF after < WaitCap THEN after ELSE WaitCap

\* int() of a header that is no integer, or time.sleep() of a negative
\* number: ValueError.
RaisesValueError(retry_after) ==
    retry_after = NotANumber \/ (retry_after # None /\ retry_after < 0)

Returns(data) == [kind |-> "value", body |-> data]

Raises(exception) == [kind |-> exception, body |-> NoBody]

NoOutcome == [kind |-> "none", body |-> NoBody]

\* A 401 that is retried like a 429.
RetriesPermissionErrors(status) == status \in {429, 401, 403}

\* The statuses _make_request answers by waiting and trying again.
Retried(status) == status = 429

\* One pass of `while retry_count < max_retries`: the request for the page and
\* what the code does with the answer.
MakeRequestAttempt ==
    /\ cpc = "request"
    /\ retry_count < max_retries
    /\ attempts' = attempts + 1
    /\ \E r \in Responses(page) :
         /\ response' = r
         /\ IF r.status = 200
            THEN /\ outcome' = Returns(r.body)
                 /\ cpc' = "handle"
                 /\ UNCHANGED <<retry_count, wait_time>>
            ELSE IF Retried(r.status)
            THEN IF r.status = 429 /\ RaisesValueError(r.retry_after)
                 THEN /\ outcome' = Raises("ValueError")
                      /\ cpc' = "handle"
                      /\ UNCHANGED <<retry_count, wait_time>>
                 ELSE /\ wait_time' = WaitTime(r.retry_after, retry_count)
                      /\ retry_count' = retry_count + 1
                      /\ UNCHANGED <<cpc, outcome>>
            ELSE IF r.status \in {401, 403}
            THEN /\ outcome' = Raises("PermissionError")
                 /\ cpc' = "handle"
                 /\ UNCHANGED <<retry_count, wait_time>>
            ELSE /\ outcome' = Raises("Exception")
                 /\ cpc' = "handle"
                 /\ UNCHANGED <<retry_count, wait_time>>
    /\ UNCHANGED <<page, all_items, raised>>
    /\ UNCHANGED ledger_vars

\* The loop is left with retry_count = max_retries:
\* raise Exception("Max retries ... exceeded due to rate limiting.")
MakeRequestGiveUp ==
    /\ cpc = "request"
    /\ retry_count >= max_retries
    /\ outcome' = Raises("Exception")
    /\ cpc' = "handle"
    /\ UNCHANGED <<page, all_items, retry_count, attempts, wait_time, response, raised>>
    /\ UNCHANGED ledger_vars

\* `if page == 1: raise Exception(...)`: an exception that is no
\* PermissionError is raised again on the first page only.
ReraisedOnPage(p) == p = 1

\* isinstance(e, PermissionError)
IsPermissionError(exception) == exception = "PermissionError"

\* The rest of one pass of `while True` of fetch_address_activity, from the
\* return of _make_request on: the items are taken from the body and added,
\* and the loop goes on, breaks (return all_items) or raises.
FetchHandle ==
    /\ cpc = "handle"
    /\ LET data == outcome.body
           failed == outcome.kind # "value" \/ data.format = "other"
           exception == IF outcome.kind = "value" THEN "Exception" ELSE outcome.kind
       IN IF failed
          THEN IF IsPermissionError(exception)
               THEN /\ cpc' = "raised" /\ raised' = "PermissionError"
                    /\ UNCHANGED <<page, all_items, retry_count, attempts>>
               ELSE IF ReraisedOnPage(page)
               THEN /\ cpc' = "raised" /\ raised' = "Exception"
                    /\ UNCHANGED <<page, all_items, retry_count, attempts>>
               ELSE /\ cpc' = "returned"
                    /\ UNCHANGED <<page, all_items, retry_count, attempts, raised>>
          ELSE IF Items(data) = <<>>
          THEN /\ cpc' = "returned"
               /\ UNCHANGED <<page, all_items, retry_count, attempts, raised>>
          ELSE /\ all_items' = all_items \o Items(data)
               /\ IF ~HasMore(data)
                  THEN /\ cpc' = "returned"
                       /\ UNCHANGED <<page, retry_count, attempts, raised>>
                  ELSE /\ page' = page + 1
                       /\ cpc' = "request"
                       /\ retry_count' = 0
                       /\ attempts' = 0
                       /\ UNCHANGED raised
    /\ UNCHANGED <<wait_time, response, outcome>>
    /\ UNCHANGED ledger_vars

\* ------------------------------------------------ reading a raw record
\* generate_ledger (generate_ledger.py) and save_transactions_csv
\* (ordiscan_export.py) each read the amount and the fee of a raw record.  A
\* quantity of BTC is the decimal number m * 10^e, kept with m not divisible
\* by 10, so that equal quantities are equal values: 5000 / 100000000 and
\* 0.00005 are both [m |-> 5, e |-> -5].
\* if ... > 1000
SatoshiThreshold == 1000

\* 100000000 = 10^8 satoshis in one BTC.
BtcExponent == 8

RECURSIVE Decimal(_, _)
Decimal(m, e) ==
    IF m = 0 THEN [m |-> 0, e |-> 0]
    ELSE IF m % 10 = 0 THEN Decimal(m \div 10, e + 1)
    ELSE [m |-> m, e |-> e]

\* val / 100000000
DividedBySatoshis(val) == Decimal(val, -BtcExponent)

\* The number val itself, taken as an amount of BTC.
Unchanged(val) == Decimal(val, 0)

\* The numbers a raw field can hold.
RawNumbers == {0, 1000, 1001, 5000}

\* A field of a raw record: absent, an int, a float, or text.
Absent == [type |-> "absent", num |-> 0]

RawFieldValues ==
    [type : {"int", "float"}, num : RawNumbers] \cup {[type |-> "str", num |-> 0]}

AmountFields == <<"btc_amount", "amount", "value", "sats", "satoshis">>

FeeFields == <<"fee", "fee_btc", "fee_sats">>

NoItem ==
    [type |-> "UNKNOWN", btc_amount |-> Absent, amount |-> Absent, value |-> Absent,
     sats |-> Absent, satoshis |-> Absent, fee |-> Absent, fee_btc |-> Absent,
     fee_sats |-> Absent]

NotNormalized ==
    [by |-> "", btc_amount |-> Unchanged(0), fee_btc |-> Unchanged(0),
     debit_btc |-> Unchanged(0), credit_btc |-> Unchanged(0)]

\* The raw records: a type, at most one of the amount fields and at most one
\* of the fee fields.
RawItems ==
    {[[[NoItem EXCEPT !.type = t] EXCEPT ![af] = av] EXCEPT ![ff] = fv] :
        t \in Kinds,
        af \in {AmountFields[k] : k \in 1 .. Len(AmountFields)},
        av \in RawFieldValues \cup {Absent},
        ff \in {FeeFields[k] : k \in 1 .. Len(FeeFields)},
        fv \in RawFieldValues \cup {Absent}}

\* isinstance(val, (int, float))
IsNumber(val) == val.type \in {"int", "float"}

\* isinstance(val, int)
IsInt(val) == val.type = "int"

\* tx.get(k1, tx.get(k2, tx.get(k3, 0.0)))
Get3(tx, k1, k2, k3) ==
    IF tx[k1] # Absent THEN tx[k1]
    ELSE IF tx[k2] # Absent THEN tx[k2]
    ELSE IF tx[k3] # Absent THEN tx[k3]
    ELSE [type |-> "float", num |-> 0]

\* `if isinstance(x, (int, float)) and x > 1000: x = x / 100000000` of
\* generate_ledger, for a number val.
ConvertIfLarge(val) ==
    IF val.num > SatoshiThreshold THEN DividedBySatoshis(val.num) ELSE Unchanged(val.num)

\* `if isinstance(fee_btc, int) and fee_btc > 1000` of save_transactions_csv.
ConvertIfLargeInt(val) ==
    IF IsInt(val) /\ val.num > SatoshiThreshold
    THEN DividedBySatoshis(val.num) ELSE Unchanged(val.num)

\* x if x > 0 else 0.0
PositivePart(d) == IF d.m > 0 THEN d ELSE Unchanged(0)

\* extract_btc_amount: the first of fields[k ..] that holds a number, divided
\* by 100000000 when the field is 'sats' or 'satoshis'; 0.0 when none does.
RECURSIVE extract_btc_amount(_, _)
extract_btc_amount(it, k) ==
    IF k > Len(AmountFields) THEN Unchanged(0)
    ELSE IF it[AmountFields[k]] # Absent /\ IsNumber(it[AmountFields[k]])
    THEN IF AmountFields[k] \in {"sats", "satoshis"}
         THEN DividedBySatoshis(it[AmountFields[k]].num)
         ELSE Unchanged(it[AmountFields[k]].num)
    ELSE extract_btc_amount(it, k + 1)

\* `for tx in transactions`: the next raw record is taken.
ReadItem ==
    /\ npc = "read"
    /\ \E it \in RawItems : item' = it
    /\ npc' = "loaded"
    /\ UNCHANGED normalized
    /\ UNCHANGED <<fold_vars, client_vars>>

\* generate_ledger, lines 110-147: the amount and the fee of the record, the
\* conversion, and the BTC columns of the entry.  Comparing an amount that is
\* no number with 0 raises TypeError.
NormalizeLedger ==
    /\ npc = "loaded"
    /\ LET raw_amount == Get3(item, "btc_amount", "amount", "value")
           raw_fee == Get3(item, "fee", "fee_btc", "fee_sats")
           btc_amount == ConvertIfLarge(raw_amount)
           fee_btc == IF IsNumber(raw_fee) THEN ConvertIfLarge(raw_fee) ELSE Unchanged(0)
       IN IF ~IsNumber(raw_amount) /\ item.type \in {"RECEIVE", "SEND"}
          THEN /\ npc' = "raised"
               /\ normalized' = [NotNormalized EXCEPT !.by = "generate_ledger"]
          ELSE /\ npc' = "done"
               /\ normalized' =
                     [by |-> "generate_ledger",
                      btc_amount |-> IF IsNumber(raw_amount) THEN btc_amount
                                     ELSE Unchanged(0),
                      fee_btc |-> fee_btc,
                      debit_btc |-> IF item.type = "RECEIVE"
                                    THEN PositivePart(btc_amount) ELSE Unchanged(0),
                      credit_btc |-> IF item.type = "SEND"
                                     THEN PositivePart(btc_amount) ELSE Unchanged(0)]
    /\ UNCHANGED item
    /\ UNCHANGED <<fold_vars, client_vars>>

\* save_transactions_csv, lines 162-167: btc_amount and fee_btc of the row.
\* A fee that is no number is written as it is; the model writes 0 for it.
SaveCsvRow ==
    /\ npc = "loaded"
    /\ LET raw_fee == Get3(item, "fee", "fee_btc", "fee_sats") IN
       normalized' =
          [by |-> "save_transactions_csv",
           btc_amount |-> extract_btc_amount(item, 1),
           fee_btc |-> IF IsNumber(raw_fee) THEN ConvertIfLargeInt(raw_fee)
                       ELSE Unchanged(0),
           debit_btc |-> Unchanged(0),
           credit_btc |-> Unchanged(0)]
    /\ npc' = "done"
    /\ UNCHANGED item
    /\ UNCHANGED <<fold_vars, client_vars>>

\* --------------------------------------------------------- specifications
InitFor(p) ==
    /\ pc = "start"
    /\ policy = p
    /\ transactions = <<>>
    /\ i = 0
    /\ ledger_entries = <<>>
    /\ running_btc_balance = 0
    /\ cost_basis_queue = <<>>
    /\ cost_basis_by_inscription = <<>>
    /\ stats = InitStats
    /\ files = {}
    /\ runs = <<>>
    /\ cpc = "request"
    /\ page = 1
    /\ all_items = <<>>
    /\ retry_count = 0
    /\ attempts = 0
    /\ wait_time = 0
    /\ response = NoResponse
    /\ outcome = NoOutcome
    /\ raised = ""
    /\ npc = "read"
    /\ item = NoItem
    /\ normalized = NotNormalized

InitA == InitFor("A")

NextA == StartA \/ StepA \/ FinishA

SpecA == InitA /\ [][NextA]_vars

InitB == InitFor("B")

NextB == StartB \/ StepB \/ FinishB

SpecB == InitB /\ [][NextB]_vars


\* Both generators, for the properties they share.
InitAB == InitA \/ InitB

NextAB == NextA \/ NextB

SpecAB == InitAB /\ [][NextAB]_vars

\* The unit-lot generator alone.
InitU == InitFor("U")

NextU == StartU \/ StepU \/ FinishU

SpecU == InitU /\ [][NextU]_vars

\* fetch_address_activity alone, from its entry.
InitFetch == InitFor("fetch")

NextFetch == MakeRequestAttempt \/ MakeRequestGiveUp \/ FetchHandle

SpecFetch == InitFetch /\ [][NextFetch]_vars

\* The same with every call of urlopen answered and the thread kept running:
\* the code is one sequential thread, so a step that can be taken is taken.
FairSpecFetch == SpecFetch /\ WF_vars(NextFetch)

\* The reading of one raw record by either script.
InitNormalize == InitFor("normalize")

NextNormalize == ReadItem \/ NormalizeLedger \/ SaveCsvRow

SpecNormalize == InitNormalize /\ [][NextNormalize]_vars

\* ------------------------------------------------------ running it again
\* Number of records up to which a second run is made.
MaxRerunLen == 2

\* The lot queue a run starts with when left_over is the queue the run before
\* ended with, had the queue been kept in the module and not in the function.
QueueKeptBetweenRuns(left_over) == left_over

\* cost_basis_queue = [] at the entry of the generator: a local list, whatever
\* queue left_over the run before ended with.
InitialQueue(left_over) == <<>>

\* What a run has ended with.
Outcome ==
    [pc |-> pc, ledger_entries |-> ledger_entries, stats |-> stats,
     running_btc_balance |-> running_btc_balance]

\* A second call of the same generator on the list the first one was given,
\* which is sorted already: the entry of the function again, from the
\* empty-input return to the initial fold state.
RunAgain ==
    /\ pc \in {"done", "raised", "returned"}
    /\ runs = <<>>
    /\ Len(transactions) <= MaxRerunLen
    /\ runs' = Append(runs, Outcome)
    /\ IF transactions = <<>>
       THEN /\ pc' = "returned"
            /\ transactions' = transactions
       ELSE /\ pc' = "loop"
            /\ transactions' = SortByTimestamp(transactions)
    /\ i' = 0
    /\ ledger_entries' = <<>>
    /\ running_btc_balance' = 0
    /\ cost_basis_queue' = InitialQueue(cost_basis_queue)
    /\ cost_basis_by_inscription' = <<>>
    /\ stats' = InitStats
    /\ UNCHANGED <<policy, files>>
    /\ UNCHANGED <<client_vars, normalizer_vars>>

\* Either generator, run once and then once more on the same list.
NextRerun == NextAB \/ RunAgain

SpecRerun == InitAB /\ [][NextRerun]_vars

\* ------------------------------------------------- vocabulary of the claims
\* The record the next loop iteration takes.
CurTx == transactions[i + 1]

\* The step is a loop iteration on a record of type t whose timestamp parses.
Processes(t) ==
    /\ pc = "loop" /\ i < Len(transactions) /\ i' = i + 1
    /\ parse_timestamp(CurTx.timestamp) # None
    /\ CurTx.type = t

\* The entry the step appended.
NewEntry == ledger_entries'[Len(ledger_entries')]

\* The lots of a queue, as a set (idx tells the lots apart).
Lots(queue) == {queue[k] : k \in 1 .. Len(queue)}

Idxs(queue) == {queue[k].idx : k \in 1 .. Len(queue)}

\* Lot l of the queue before the step is no longer in the queue after it.
Removed(l, after) == l.idx \notin Idxs(after)

\* Lot l of the queue before the step was consumed from, wholly or in part.
Touched(l, after) == l \notin Lots(after)

TotalAmount(queue) == SumSeq([k \in 1 .. Len(queue) |-> queue[k].amount])

TotalBasis(queue) == SumSeq([k \in 1 .. Len(queue) |-> queue[k].cost_basis])

\* ----------------------------------------------------------------- claims
\* C1 (Policy A, FIFO order).  On every SEND the lots are consumed from the
\* earliest acquisition timestamp on: when any lot is touched, a lot with the
\* earliest date of the queue is touched, and a lot is touched only when every
\* lot acquired strictly before it has left the queue.
C1_FifoOrderA ==
    [][Processes("SEND") /\ policy = "A" =>
         LET before == Lots(cost_basis_queue)
             hit == {l \in before : Touched(l, cost_basis_queue')}
         IN /\ hit # {} =>
                 \E l \in hit : \A o \in before : l.date <= o.date
            /\ \A l \in hit : \A o \in before :
                 o.date < l.date => Removed(o, cost_basis_queue')]_vars

\* A SEND consumed the lot of the first of two RECEIVEs of different dates and
\* left the lot of the second as it was.
C1_Witness ==
    /\ policy = "A" /\ Len(ledger_entries) = 3
    /\ ledger_entries[1].type = "RECEIVE" /\ ledger_entries[2].type = "RECEIVE"
    /\ ledger_entries[1].debit_btc > 0
    /\ ledger_entries[1].date < ledger_entries[2].date
    /\ ledger_entries[3].type = "SEND" /\ ledger_entries[3].cost_basis > 0
    /\ Len(cost_basis_queue) = 1
    /\ cost_basis_queue[1].date = ledger_entries[2].date
    /\ cost_basis_queue[1].amount = ledger_entries[2].debit_btc


\* C3 (balance conservation, both generators).  The balance starts at 0, each
\* entry's balance_btc is the previous entry's balance plus its debit minus
\* its credit, and after every prefix of the entries the balance is the sum of
\* the debits minus the sum of the credits; running_btc_balance is that of
\* all the entries so far.
C3_BalanceConservation ==
    LET e == ledger_entries
        Debits(k) == SumSeq([j \in 1 .. k |-> e[j].debit_btc])
        Credits(k) == SumSeq([j \in 1 .. k |-> e[j].credit_btc])
    IN /\ e = <<>> => running_btc_balance = 0
       /\ \A k \in 1 .. Len(e) :
            /\ e[k].balance_btc =
                 (IF k = 1 THEN 0 ELSE e[k - 1].balance_btc)
                 + e[k].debit_btc - e[k].credit_btc
            /\ e[k].balance_btc = Debits(k) - Credits(k)
       /\ running_btc_balance = Debits(Len(e)) - Credits(Len(e))

\* A finished run with a RECEIVE debit, a SEND credit and a negative balance.
C3_Witness ==
    /\ pc = "done" /\ Len(ledger_entries) = 3
    /\ \E k \in 1 .. 3 : ledger_entries[k].debit_btc > 0
    /\ \E k \in 1 .. 3 : ledger_entries[k].credit_btc > 0
    /\ running_btc_balance < 0

\* The amount of the lots of the queue acquired no later than lot l, l included.
AmountUpTo(queue, l) ==
    SumSeq([k \in 1 .. Len(queue) |->
               IF queue[k].idx <= l.idx THEN queue[k].amount ELSE 0])

\* C5 (Policy A, lot life cycle).  Every lot in the queue has a remaining
\* quantity above zero; no step increases the remaining quantity of a lot; a
\* lot leaves the queue exactly in the step of a SEND whose amount covers the
\* lot and every older lot; a lot that is not in the queue after its record
\* was processed is never in the queue again.
C5_LotLifecycleA ==
    [][policy = "A" =>
         /\ \A n \in Lots(cost_basis_queue') : n.amount > 0
         /\ \A l \in Lots(cost_basis_queue) : \A n \in Lots(cost_basis_queue') :
              l.idx = n.idx => n.amount <= l.amount
         /\ \A l \in Lots(cost_basis_queue) :
              Removed(l, cost_basis_queue') <=>
                 /\ Processes("SEND")
                 /\ AmountUpTo(cost_basis_queue, l) <= CurTx.btc_amount
         /\ \A j \in 1 .. i :
              j \notin Idxs(cost_basis_queue) => j \notin Idxs(cost_basis_queue')]_vars

\* A lot of 2 was reduced to 1 by a first SEND and removed by a second.
C5_Witness ==
    /\ policy = "A" /\ Len(ledger_entries) = 3
    /\ ledger_entries[1].type = "RECEIVE" /\ ledger_entries[1].debit_btc = 2
    /\ ledger_entries[2].type = "SEND" /\ ledger_entries[2].credit_btc = 1
    /\ ledger_entries[3].type = "SEND" /\ ledger_entries[3].credit_btc = 1
    /\ ledger_entries[3].cost_basis = 1
    /\ cost_basis_queue = <<>>

\* C6 (Policy A, disposal beyond the lots).  A SEND whose amount exceeds the
\* total remaining quantity empties the queue, consumes as cost basis exactly
\* the cost basis of the lots that were in it, books the excess as gain, and
\* the run goes on with the next record.
C6_ExcessIsGainA ==
    [][Processes("SEND") /\ policy = "A"
       /\ CurTx.btc_amount > TotalAmount(cost_basis_queue) =>
         /\ cost_basis_queue' = <<>>
         /\ NewEntry.cost_basis = TotalBasis(cost_basis_queue)
         /\ NewEntry.gain_loss =
              (TotalAmount(cost_basis_queue) - TotalBasis(cost_basis_queue))
              + (CurTx.btc_amount - TotalAmount(cost_basis_queue))
         /\ Len(ledger_entries') = Len(ledger_entries) + 1
         /\ pc' = "loop"]_vars

\* A SEND of 2 met a single lot of 1, and the run went on to a third entry.
C6_Witness ==
    /\ policy = "A" /\ Len(ledger_entries) = 3
    /\ ledger_entries[1].type = "RECEIVE" /\ ledger_entries[1].debit_btc = 1
    /\ ledger_entries[2].type = "SEND" /\ ledger_entries[2].credit_btc = 2
    /\ ledger_entries[2].cost_basis = 1 /\ ledger_entries[2].gain_loss = 1
    /\ ledger_entries[3].type = "RECEIVE"
    /\ Len(cost_basis_queue) = 1 /\ cost_basis_queue[1].idx = 3

QueueOf(by_inscription, x) ==
    IF x \in DOMAIN by_inscription THEN by_inscription[x] ELSE <<>>

\* The step is a SEND of Policy B that finds a lot of its inscription.
MatchedSendB ==
    /\ Processes("SEND") /\ policy = "B"
    /\ CurTx.inscription_id # ""
    /\ QueueOf(cost_basis_by_inscription, CurTx.inscription_id) # <<>>

\* The step is a SEND of Policy B that finds no lot: no inscription_id, an
\* inscription never received, or one whose lots are all consumed.
UnmatchedSendB ==
    /\ Processes("SEND") /\ policy = "B"
    /\ \/ CurTx.inscription_id = ""
       \/ QueueOf(cost_basis_by_inscription, CurTx.inscription_id) = <<>>

\* The lots the step took out of the queue of inscription x.
Popped(x) ==
    Lots(QueueOf(cost_basis_by_inscription, x))
    \ Lots(QueueOf(cost_basis_by_inscription', x))

\* The entries of the general queue that belong to inscriptions other than x.
OthersInQueue(queue, x) == SelectSeq(queue, LAMBDA cb : cb.inscription_id # x)

\* C2 (Policy B, per-inscription FIFO).  A SEND of inscription X that has a
\* lot takes exactly one lot out of the queue of X, the earliest received of
\* X, and consumes its cost basis; the lots of every other inscription stay as
\* they are, in the per-inscription queues and in the general queue.
C2_InscriptionFifoB ==
    [][MatchedSendB =>
         LET x == CurTx.inscription_id
             q == QueueOf(cost_basis_by_inscription, x)
             r == QueueOf(cost_basis_by_inscription', x)
         IN /\ Len(r) = Len(q) - 1 /\ Lots(r) \subseteq Lots(q)
            /\ Cardinality(Popped(x)) = 1
            /\ \A l \in Popped(x) :
                 /\ \A o \in Lots(q) : l.date <= o.date /\ l.idx <= o.idx
                 /\ NewEntry.cost_basis = l.cost_basis
            /\ \A y \in InscriptionIds \ {x} :
                 QueueOf(cost_basis_by_inscription', y)
                 = QueueOf(cost_basis_by_inscription, y)
            /\ OthersInQueue(cost_basis_queue', x) = OthersInQueue(cost_basis_queue, x)]_vars

\* B was received before A; the SEND of A consumed the lot of A and left the
\* older lot of B.
C2_Witness ==
    /\ policy = "B" /\ Len(ledger_entries) = 3
    /\ ledger_entries[1].type = "RECEIVE" /\ ledger_entries[1].inscription_id = "B"
    /\ ledger_entries[2].type = "RECEIVE" /\ ledger_entries[2].inscription_id = "A"
    /\ ledger_entries[1].date < ledger_entries[2].date
    /\ ledger_entries[3].type = "SEND" /\ ledger_entries[3].inscription_id = "A"
    /\ ledger_entries[3].cost_basis = ledger_entries[2].debit_btc
    /\ ledger_entries[3].cost_basis > 0
    /\ QueueOf(cost_basis_by_inscription, "A") = <<>>
    /\ Len(QueueOf(cost_basis_by_inscription, "B")) = 1

\* The number of entries of type t and inscription x that satisfy P.
CountEntries(entries, t, x, P(_)) ==
    Cardinality({k \in 1 .. Len(entries) :
                    /\ entries[k].type = t /\ entries[k].inscription_id = x
                    /\ P(entries[k])})

\* The lots created for x are those matched to a SEND and those still queued.
LotAccountB(entries, by_inscription, x) ==
    CountEntries(entries, "SEND", x, LAMBDA e : e.cost_basis > 0)
    + Len(QueueOf(by_inscription, x))
    = CountEntries(entries, "RECEIVE", x, LAMBDA e : e.debit_btc > 0)

AllIdxs(by_inscription) ==
    UNION {Idxs(by_inscription[x]) : x \in DOMAIN by_inscription}

\* C4 (Policy B, no double consumption).  For every inscription the SENDs
\* matched to a lot plus the lots still queued are the lots created for it; a
\* lot that left its queue never returns to a queue; a SEND of an inscription
\* with no lot left gets cost basis 0.
C4_SingleConsumptionB ==
    [][policy = "B" =>
         /\ \A x \in InscriptionIds \ {""} :
              LotAccountB(ledger_entries', cost_basis_by_inscription', x)
         /\ \A j \in 1 .. i :
              j \notin AllIdxs(cost_basis_by_inscription)
                 => j \notin AllIdxs(cost_basis_by_inscription')
         /\ UnmatchedSendB => NewEntry.cost_basis = 0]_vars

\* One RECEIVE of A, then two SENDs of A: the first is matched, the second
\* finds no lot.
C4_Witness ==
    /\ policy = "B" /\ Len(ledger_entries) = 3
    /\ ledger_entries[1].type = "RECEIVE" /\ ledger_entries[1].inscription_id = "A"
    /\ ledger_entries[2].type = "SEND" /\ ledger_entries[2].inscription_id = "A"
    /\ ledger_entries[2].cost_basis = ledger_entries[1].debit_btc
    /\ ledger_entries[2].cost_basis > 0
    /\ ledger_entries[3].type = "SEND" /\ ledger_entries[3].inscription_id = "A"
    /\ ledger_entries[3].cost_basis = 0
    /\ ledger_entries[3].gain_loss = ledger_entries[3].credit_btc

\* C8 (Policy B, matched sale).  The entry of a matched SEND has the cost
\* basis of the popped lot, which is the btc_amount of the RECEIVE of that
\* inscription that created the lot, and gain_loss = proceeds - cost basis;
\* when the proceeds are below the cost basis the gain_loss is negative and is
\* added to total_losses.
C8_MatchedGainLossB ==
    [][MatchedSendB =>
         \A l \in Popped(CurTx.inscription_id) :
            /\ transactions[l.idx].type = "RECEIVE"
            /\ transactions[l.idx].inscription_id = CurTx.inscription_id
            /\ NewEntry.cost_basis = transactions[l.idx].btc_amount
            /\ NewEntry.cost_basis = l.cost_basis
            /\ NewEntry.gain_loss = CurTx.btc_amount - l.cost_basis
            /\ CurTx.btc_amount < l.cost_basis =>
                 /\ NewEntry.gain_loss < 0
                 /\ stats'.total_losses
                    = stats.total_losses + (l.cost_basis - CurTx.btc_amount)
                 /\ stats'.total_gains = stats.total_gains]_vars

\* Bought for 2, sold for 1: a loss of 1.
C8_Witness ==
    /\ policy = "B" /\ Len(ledger_entries) = 2
    /\ ledger_entries[1].type = "RECEIVE" /\ ledger_entries[1].debit_btc = 2
    /\ ledger_entries[2].type = "SEND" /\ ledger_entries[2].credit_btc = 1
    /\ ledger_entries[2].cost_basis = 2 /\ ledger_entries[2].gain_loss = -1
    /\ stats.total_losses = 1

\* C9 (Policy B, unmatched sale).  A SEND that finds no lot records cost
\* basis 0 and gain_loss = proceeds and changes no queue.
C9_UnmatchedSendB ==
    [][UnmatchedSendB =>
         /\ NewEntry.cost_basis = 0
         /\ NewEntry.gain_loss = CurTx.btc_amount
         /\ cost_basis_by_inscription' = cost_basis_by_inscription
         /\ cost_basis_queue' = cost_basis_queue]_vars

\* With a lot of A queued, a SEND of B (never received) and a SEND without
\* inscription_id were booked as full gain and the lot of A is still there.
C9_Witness ==
    /\ policy = "B" /\ Len(ledger_entries) = 3
    /\ ledger_entries[1].type = "RECEIVE" /\ ledger_entries[1].inscription_id = "A"
    /\ \E k \in 2 .. 3 : /\ ledger_entries[k].type = "SEND"
                         /\ ledger_entries[k].inscription_id = "B"
    /\ \E k \in 2 .. 3 : /\ ledger_entries[k].type = "SEND"
                         /\ ledger_entries[k].inscription_id = ""
    /\ \A k \in 2 .. 3 : /\ ledger_entries[k].cost_basis = 0
                         /\ ledger_entries[k].gain_loss = ledger_entries[k].credit_btc
                         /\ ledger_entries[k].gain_loss > 0
    /\ Len(QueueOf(cost_basis_by_inscription, "A")) = 1
    /\ Len(cost_basis_queue) = 1

\* C10 as stated.  Every RECEIVE with a known inscription_id, whatever its
\* btc_amount, pushes one lot onto the queue of that inscription.
C10_AnyAmountPushes ==
    [][Processes("RECEIVE") /\ policy = "B" /\ CurTx.inscription_id # "" =>
         Len(QueueOf(cost_basis_by_inscription', CurTx.inscription_id))
         = Len(QueueOf(cost_basis_by_inscription, CurTx.inscription_id)) + 1]_vars

\* C10 (Policy B, RECEIVE), amended.  A RECEIVE with a known inscription_id
\* and btc_amount > 0 appends one lot, of that cost basis, to the queue of its
\* inscription and changes no other queue; with btc_amount = 0 it changes no
\* queue at all.  A matched SEND pops the lot of the earliest RECEIVE of its
\* inscription that is still queued, a RECEIVE with btc_amount > 0.
C10_PositiveAmountPushes ==
    [][policy = "B" =>
         /\ Processes("RECEIVE") /\ CurTx.inscription_id # "" =>
              LET x == CurTx.inscription_id IN
              IF CurTx.btc_amount > 0
              THEN /\ QueueOf(cost_basis_by_inscription', x)
                      = Append(QueueOf(cost_basis_by_inscription, x),
                               [date |-> CurTx.timestamp, cost_basis |-> CurTx.btc_amount,
                                txid |-> CurTx.txid, idx |-> i + 1])
                   /\ \A y \in InscriptionIds \ {x} :
                        QueueOf(cost_basis_by_inscription', y)
                        = QueueOf(cost_basis_by_inscription, y)
              ELSE /\ cost_basis_by_inscription' = cost_basis_by_inscription
                   /\ cost_basis_queue' = cost_basis_queue
         /\ MatchedSendB =>
              \A l \in Popped(CurTx.inscription_id) :
                 /\ \A o \in Lots(QueueOf(cost_basis_by_inscription, CurTx.inscription_id)) :
                      l.idx <= o.idx
                 /\ transactions[l.idx].type = "RECEIVE"
                 /\ transactions[l.idx].btc_amount > 0
                 /\ NewEntry.cost_basis = transactions[l.idx].btc_amount]_vars

\* A was received for 0 and then for 1; the SEND of A was matched to the
\* second RECEIVE.
C10_Witness ==
    /\ policy = "B" /\ Len(ledger_entries) = 3
    /\ ledger_entries[1].type = "RECEIVE" /\ ledger_entries[1].inscription_id = "A"
    /\ ledger_entries[1].debit_btc = 0
    /\ ledger_entries[2].type = "RECEIVE" /\ ledger_entries[2].inscription_id = "A"
    /\ ledger_entries[2].debit_btc = 1
    /\ ledger_entries[3].type = "SEND" /\ ledger_entries[3].inscription_id = "A"
    /\ ledger_entries[3].cost_basis = 1
    /\ QueueOf(cost_basis_by_inscription, "A") = <<>>

\* The lots held in the per-inscription queues, as a set (idx tells them apart).
HeldLots(by_inscription) ==
    UNION {Lots(by_inscription[x]) : x \in DOMAIN by_inscription}

\* The sum of cost_basis over a set of lots.
RECURSIVE BasisOfLots(_)
BasisOfLots(S) ==
    IF S = {} THEN 0
    ELSE LET l == CHOOSE l \in S : TRUE IN l.cost_basis + BasisOfLots(S \ {l})

\* The "Remaining Cost Basis (Unrealized)" line of the summary.
RemainingCostBasis(queue) == TotalBasis(queue)

\* The "Remaining Holdings" line of the summary.
RemainingHoldings(queue) == Len(queue)

\* C11 as stated (Policy B, remaining basis and holdings).  After every
\* transaction the general queue and the per-inscription queues hold the same
\* lots, so the remaining cost basis and the remaining holdings the summary
\* reports are the sum of cost_basis and the number of the lots held in the
\* per-inscription queues, also when records share txid and inscription_id.
C11_QueuesAgree ==
    policy = "B" =>
       /\ Idxs(cost_basis_queue) = AllIdxs(cost_basis_by_inscription)
       /\ RemainingHoldings(cost_basis_queue)
          = Cardinality(HeldLots(cost_basis_by_inscription))
       /\ RemainingCostBasis(cost_basis_queue)
          = BasisOfLots(HeldLots(cost_basis_by_inscription))

C13_ReceiveAppendsA ==
    [][Processes("RECEIVE") /\ policy = "A" =>
         IF CurTx.btc_amount > 0
         THEN /\ Len(cost_basis_queue') = Len(cost_basis_queue) + 1
              /\ SubSeq(cost_basis_queue', 1, Len(cost_basis_queue)) = cost_basis_queue
              /\ LET lot == cost_basis_queue'[Len(cost_basis_queue')]
                 IN /\ lot.amount = CurTx.btc_amount
                    /\ lot.cost_basis = CurTx.btc_amount
                    /\ lot.date = CurTx.timestamp
                    /\ lot.idx = i + 1
         ELSE cost_basis_queue' = cost_basis_queue]_vars

\* RECEIVEs of 1, 0 and 2: the queue holds the lot of 1 and, behind it, the
\* lot of 2; the RECEIVE of 0 left no lot.
C13_Witness ==
    /\ policy = "A" /\ Len(ledger_entries) = 3
    /\ \A k \in 1 .. 3 : ledger_entries[k].type = "RECEIVE"
    /\ ledger_entries[1].debit_btc = 1
    /\ ledger_entries[2].debit_btc = 0
    /\ ledger_entries[3].debit_btc = 2
    /\ Len(cost_basis_queue) = 2
    /\ cost_basis_queue[1].amount = 1 /\ cost_basis_queue[1].cost_basis = 1
    /\ cost_basis_queue[2].amount = 2 /\ cost_basis_queue[2].cost_basis = 2

\* --------------------------------------------------------------- renderer
\* generate_tax_ledger_html recomputes the totals from the rows of the ledger
\* CSV.  The CSV prints every amount with 8 decimals, that is in whole units,
\* so a row carries the values of its entry.
\* total_fees: the Fee BTC column summed over every row.
RenderedFees(entries) ==
    SumSeq([k \in 1 .. Len(entries) |-> entries[k].fee_btc])

\* total_gains: the positive values of the Gain/Loss BTC column.
RenderedGains(entries) ==
    SumSeq([k \in 1 .. Len(entries) |->
               IF entries[k].gain_loss > 0 THEN entries[k].gain_loss ELSE 0])

\* total_losses: the absolute values of the negative ones.
RenderedLosses(entries) ==
    SumSeq([k \in 1 .. Len(entries) |->
               IF entries[k].gain_loss < 0 THEN Abs(entries[k].gain_loss) ELSE 0])

\* C14 (gain/loss partition, both generators).  total_gains - total_losses is
\* the sum of the gain_loss of all entries; total_gains is the sum of the
\* positive gain_loss values and total_losses the sum of the absolute values
\* of the negative ones, as the renderer recomputes them; neither is negative;
\* an entry that is not a SEND has gain_loss 0.
C14_GainLossPartition ==
    /\ stats.total_gains - stats.total_losses
       = SumSeq([k \in 1 .. Len(ledger_entries) |-> ledger_entries[k].gain_loss])
    /\ stats.total_gains = RenderedGains(ledger_entries)
    /\ stats.total_losses = RenderedLosses(ledger_entries)
    /\ stats.total_gains >= 0 /\ stats.total_losses >= 0
    /\ \A k \in 1 .. Len(ledger_entries) :
         ledger_entries[k].type # "SEND" => ledger_entries[k].gain_loss = 0

\* A finished run of Policy B with a loss of 1 (bought for 2, sold for 1) and
\* a gain of 1 (a SEND with no lot).
C14_Witness ==
    /\ pc = "done" /\ policy = "B" /\ Len(ledger_entries) = 3
    /\ ledger_entries[1].type = "RECEIVE" /\ ledger_entries[1].debit_btc = 2
    /\ \E k \in 2 .. 3 : ledger_entries[k].gain_loss = -1
    /\ \E k \in 2 .. 3 : ledger_entries[k].gain_loss = 1
    /\ stats.total_gains = 1 /\ stats.total_losses = 1

\* C15 as stated (fees).  total_fees_paid is the sum of fee_btc over all the
\* ledger entries, of whatever type, and is the total the renderer recomputes
\* from the entries.
C15_FeesOverAllEntries ==
    /\ stats.total_fees_paid
       = SumSeq([k \in 1 .. Len(ledger_entries) |-> ledger_entries[k].fee_btc])
    /\ stats.total_fees_paid = RenderedFees(ledger_entries)

\* C16 (unknown kind, both generators).  A record whose type is neither
\* RECEIVE nor SEND yields one ledger entry, of that type, with debit 0,
\* credit 0 and gain_loss 0, and the step leaves the lot queues, the running
\* balance and the statistics (the gain and loss totals among them) unchanged.
C16_UnknownPassesThrough ==
    [][Processes("UNKNOWN") =>
         /\ Len(ledger_entries') = Len(ledger_entries) + 1
         /\ SubSeq(ledger_entries', 1, Len(ledger_entries)) = ledger_entries
         /\ NewEntry.type = "UNKNOWN"
         /\ NewEntry.debit_btc = 0 /\ NewEntry.credit_btc = 0
         /\ NewEntry.gain_loss = 0
         /\ NewEntry.balance_btc = running_btc_balance
         /\ running_btc_balance' = running_btc_balance
         /\ cost_basis_queue' = cost_basis_queue
         /\ cost_basis_by_inscription' = cost_basis_by_inscription
         /\ stats' = stats
         /\ pc' = "loop"]_vars

\* Policy B: a RECEIVE of A for 1, then a record of unknown type naming A with
\* btc_amount 1: the balance is still 1 and the lot of A is still queued.
C16_Witness ==
    /\ policy = "B" /\ Len(ledger_entries) = 2
    /\ ledger_entries[1].type = "RECEIVE" /\ ledger_entries[1].debit_btc = 1
    /\ ledger_entries[2].type = "UNKNOWN" /\ ledger_entries[2].inscription_id = "A"
    /\ ledger_entries[2].debit_btc = 0 /\ ledger_entries[2].credit_btc = 0
    /\ transactions[2].btc_amount = 1
    /\ running_btc_balance = 1
    /\ Len(cost_basis_queue) = 1
    /\ Len(QueueOf(cost_basis_by_inscription, "A")) = 1

\* The timestamp of the record is one that cannot be resolved.
Unresolvable(tx) == tx.timestamp = None

Resolvable(tx) == ~Unresolvable(tx)

\* The record list with the unresolvable records taken out.
WithoutUnresolvable(txs) == SelectSeq(txs, Resolvable)

\* The orders the records of txs can have in the input file.
FileOrders(txs) ==
    {[k \in 1 .. Len(txs) |-> txs[p[k]]] :
        p \in {q \in [1 .. Len(txs) -> 1 .. Len(txs)] :
                  \A a, b \in 1 .. Len(txs) : q[a] = q[b] => a = b}}

C18_NonNumericTakenAsZero ==
    [][(/\ pc = "loop" /\ i < Len(transactions) /\ i' = i + 1
        /\ Resolvable(CurTx) /\ CurTx.btc_amount = NotANumber) =>
         /\ pc' = "loop"
         /\ Len(ledger_entries') = Len(ledger_entries) + 1
         /\ NewEntry.debit_btc = 0 /\ NewEntry.credit_btc = 0
         /\ running_btc_balance' = running_btc_balance
         /\ cost_basis_queue' = cost_basis_queue
         /\ cost_basis_by_inscription' = cost_basis_by_inscription]_vars

\* C19 as stated (empty input, both generators).  A run on an empty record
\* list ends with an error signalled to the caller: it never returns normally.
C19_EmptyInputFatal ==
    (pc # "start" /\ transactions = <<>>) => pc = "raised"

\* C20 as stated (all-or-nothing, Policy B).  Whenever the run has ended with
\* an error, no output file of the run has been written.
C20_AllOrNothing ==
    (policy = "B" /\ pc = "raised") => files = {}

\* ------------------------------------------------- Policy A: conservation
\* The sum of the gain_loss column of the entries.
SumGainLoss(entries) ==
    SumSeq([k \in 1 .. Len(entries) |-> entries[k].gain_loss])

\* C26: under Policy A, after every transaction, the running balance plus the
\* sum of gain_loss over all entries so far equals the total quantity left in
\* the lots of the queue.
C26_BalancePlusGains ==
    policy = "A" =>
        running_btc_balance + SumGainLoss(ledger_entries)
            = TotalAmount(cost_basis_queue)

\* A SEND sold more than was held (its excess booked as gain), the balance is
\* negative, and a later RECEIVE left a lot in the queue.
C26_Witness ==
    /\ policy = "A" /\ pc = "loop"
    /\ running_btc_balance < 0
    /\ cost_basis_queue # <<>>
    /\ \E k \in 1 .. Len(ledger_entries) :
          ledger_entries[k].type = "SEND" /\ ledger_entries[k].gain_loss > 0

\* The amounts of the RECEIVEs that appended a lot (btc_amount > 0).
LotCreatingReceipts(entries) ==
    SumSeq([k \in 1 .. Len(entries) |->
               IF entries[k].type = "RECEIVE" /\ entries[k].debit_btc > 0
               THEN entries[k].debit_btc ELSE 0])

\* The cost basis consumed by the SENDs (the cost_basis column of SEND entries).
CostBasisConsumed(entries) ==
    SumSeq([k \in 1 .. Len(entries) |->
               IF entries[k].type = "SEND" THEN entries[k].cost_basis ELSE 0])

\* C27: under Policy A, after every transaction, the amounts of all RECEIVEs
\* that created a lot add up to the cost basis consumed by all SEND entries
\* plus the cost basis of the lots still in the queue.
C27_CostBasisConserved ==
    policy = "A" =>
        LotCreatingReceipts(ledger_entries)
            = CostBasisConsumed(ledger_entries) + TotalBasis(cost_basis_queue)

\* A SEND consumed part of a lot: some basis is consumed, some is still queued.
C27_Witness ==
    /\ policy = "A" /\ pc = "loop"
    /\ CostBasisConsumed(ledger_entries) > 0
    /\ TotalBasis(cost_basis_queue) > 0
    /\ \E l \in Lots(cost_basis_queue) : l.amount < transactions[l.idx].btc_amount

\* A lot of before is still in after with a smaller quantity.
ConsumedInPart(before, after) ==
    \E l \in Lots(before) : \E r \in Lots(after) :
        r.idx = l.idx /\ r.amount < l.amount

\* C28: the matching loop of a Policy A SEND ends; each of its iterations
\* removes one lot or ends with nothing left to sell, so the SEND makes as
\* many iterations as it removes lots, plus one when it consumes a lot in
\* part, at most (number of lots in the queue + 1) in all, and none when its
\* amount is 0.
C28_LoopBoundedA ==
    [][(policy = "A" /\ Processes("SEND")) =>
          LET m == SendA(cost_basis_queue, CurTx.btc_amount)
              removed == Len(cost_basis_queue) - Len(cost_basis_queue')
              partial == ConsumedInPart(cost_basis_queue, cost_basis_queue')
          IN /\ cost_basis_queue' = m.queue
             /\ m.iterations = removed + (IF partial THEN 1 ELSE 0)
             /\ partial => m.remaining_to_sell = 0
             /\ m.iterations <= Len(cost_basis_queue) + 1
             /\ CurTx.btc_amount = 0 => m.iterations = 0]_vars

\* A SEND has removed the oldest lot and consumed the next one in part: two
\* iterations on a queue of two lots.
C28_Witness ==
    /\ policy = "A" /\ pc = "loop"
    /\ Len(ledger_entries) = 3
    /\ ledger_entries[1].type = "RECEIVE" /\ ledger_entries[2].type = "RECEIVE"
    /\ ledger_entries[3].type = "SEND"
    /\ Len(cost_basis_queue) = 1
    /\ cost_basis_queue[1].idx = 2
    /\ cost_basis_queue[1].amount < ledger_entries[2].debit_btc

\* ------------------------------------------------------------ determinism
\* The run under way follows an earlier run on the same list.
SecondRun == runs # <<>>

C29_UnitLotsOldestFirst ==
    [][policy = "U" =>
          /\ \A l \in Lots(cost_basis_queue') : l.amount = 1
          /\ Processes("SEND") =>
                LET m == SendU(cost_basis_queue, NewEntry.credit_btc) IN
                /\ NewEntry.credit_btc = AmountOrElse(CurTx.btc_amount, sent_btc(CurTx))
                /\ cost_basis_queue' = m.queue
                /\ m.partial_uses = 0
                /\ IF cost_basis_queue # <<>>
                   THEN /\ cost_basis_queue' = Tail(cost_basis_queue)
                        /\ \A l \in Lots(cost_basis_queue) :
                              Head(cost_basis_queue).date <= l.date
                        /\ m.full_uses = 1
                        /\ NewEntry.cost_basis = Head(cost_basis_queue).cost_basis
                        /\ NewEntry.gain_loss
                              = NewEntry.credit_btc - Head(cost_basis_queue).cost_basis
                   ELSE /\ cost_basis_queue' = <<>>
                        /\ m.full_uses = 0
                        /\ NewEntry.gain_loss = NewEntry.credit_btc]_vars

\* A SEND of inscription "A" has removed the lot of inscription "B" at the head
\* of the queue and left the later lot of "A" in it.
C29_Witness ==
    /\ policy = "U" /\ pc = "loop"
    /\ Len(ledger_entries) = 3
    /\ ledger_entries[1].type = "RECEIVE" /\ ledger_entries[1].inscription_id = "B"
    /\ ledger_entries[2].type = "RECEIVE" /\ ledger_entries[2].inscription_id = "A"
    /\ ledger_entries[3].type = "SEND" /\ ledger_entries[3].inscription_id = "A"
    /\ Len(cost_basis_queue) = 1
    /\ cost_basis_queue[1].inscription_id = "A"

\* ------------------------------------------------------------ API client
\* The step is a request that the server answered with status.
Answered(status) ==
    cpc = "request" /\ attempts' = attempts + 1 /\ response'.status = status

\* C23: a 429 makes _make_request wait and request the same page again: the
\* wait is min(Retry-After or 2^retry_count, 60), never above 60 seconds (a
\* Retry-After that is no non-negative integer ends the call with an error
\* and no wait); a call makes at most max_retries requests; a call whose
\* every request was answered 429 ends with an exception, and a call that
\* returns a value has got a 200; every call ends.
C23_RateLimitRetry ==
    /\ [][Answered(429) =>
             \/ /\ RaisesValueError(response'.retry_after)
                /\ cpc' = "handle" /\ outcome'.kind = "ValueError"
                /\ wait_time' = wait_time
             \/ /\ ~RaisesValueError(response'.retry_after)
                /\ cpc' = "request" /\ page' = page
                /\ retry_count' = retry_count + 1
                /\ wait_time' >= 0 /\ wait_time' <= WaitCap
                /\ \/ wait_time' = WaitCap
                   \/ wait_time' = response'.retry_after
                   \/ response'.retry_after = None /\ wait_time' = 2 ^ retry_count]_vars
    /\ [](attempts <= max_retries)
    /\ []((cpc = "handle" /\ retry_count = attempts) =>
             /\ attempts = max_retries
             /\ outcome.kind = "Exception")
    /\ []((cpc = "handle" /\ outcome.kind = "value") => response.status = 200)
    /\ (cpc = "request") ~> (cpc = "handle")

\* A call has made max_retries requests, each answered 429, the last wait
\* was cut to the cap, and the call has ended with the exception.
C23_Witness ==
    /\ cpc = "handle"
    /\ attempts = max_retries /\ retry_count = max_retries
    /\ response.status = 429 /\ response.retry_after = 120
    /\ wait_time = WaitCap
    /\ outcome.kind = "Exception"

\* C24: a 401 or 403 ends the _make_request call at once with a
\* PermissionError, with no wait and no further request, and
\* fetch_address_activity raises it again on whatever page it came, returning
\* nothing of what it had collected.
C24_PermissionErrorFatal ==
    /\ [][(Answered(401) \/ Answered(403)) =>
             /\ cpc' = "handle" /\ outcome'.kind = "PermissionError"
             /\ retry_count' = retry_count /\ wait_time' = wait_time]_vars
    /\ [][(cpc = "handle" /\ outcome.kind = "PermissionError") =>
             (cpc' = "raised" /\ raised' = "PermissionError")]_vars
    /\ []((cpc = "handle" /\ response.status \in {401, 403}) =>
             outcome.kind = "PermissionError")
    /\ [](raised = "PermissionError" => cpc = "raised")

\* A 403 on the second page, after a page of items was collected: the
\* PermissionError is raised and the items are not returned.
C24_Witness ==
    /\ cpc = "raised" /\ raised = "PermissionError"
    /\ response.status = 403
    /\ page = 2 /\ all_items # <<>>

\* An HTTP error that is neither 429 nor 401/403: a status urllib raises as
\* HTTPError, or a 2xx that is not 200.
OtherHttpError(status) == status \in {204, 500}

\* C25: any other HTTP error (neither 429 nor 401/403) reaches the caller of
\* fetch_address_activity as an exception, on whichever page it is received.
C25_OtherErrorsPropagate ==
    [][(cpc = "handle" /\ OtherHttpError(response.status)) => cpc' = "raised"]_vars

\* The body says that no page follows: has_more is false, or has_more is not
\* given and there is no next.
NoFurtherPage(data) ==
    /\ data.format = "dict"
    /\ \/ data.has_more = "false"
       \/ data.has_more = "absent" /\ data.next = "absent"

\* The items the body carries, whatever key they are under.
CarriedItems(data) == IF data.key = "absent" /\ data.format = "dict" THEN <<>> ELSE data.items

\* The items are those of pages 1, 2, ... in that order, each page's items in
\* the order of the page.
InPageOrder(items) ==
    \A j, k \in 1 .. Len(items) :
        j < k => \/ items[j].page < items[k].page
                 \/ items[j].page = items[k].page /\ items[j].k < items[k].k

\* C30: fetch_address_activity requests page 1 first and after page p, page
\* p + 1; the items it holds are those of the pages requested, in page
\* order; it returns them as soon as a page carries no item or its body says
\* that no page follows, goes on to the next page otherwise, and so ends
\* whenever the server ends the pages.
C30_PagesInOrder ==
    /\ [](page >= 1 /\ InPageOrder(all_items)
          /\ \A k \in 1 .. Len(all_items) : all_items[k].page <= page)
    /\ [][page' = page \/ (page' = page + 1 /\ cpc = "handle" /\ cpc' = "request")]_vars
    /\ [][(cpc = "handle" /\ outcome.kind = "value" /\ outcome.body.format # "other") =>
             LET data == outcome.body IN
             IF CarriedItems(data) = <<>>
             THEN cpc' = "returned" /\ all_items' = all_items
             ELSE /\ all_items' = all_items \o CarriedItems(data)
                  /\ IF NoFurtherPage(data)
                     THEN cpc' = "returned" /\ page' = page
                     ELSE cpc' = "request" /\ page' = page + 1]_vars
    /\ [][(cpc \in {"returned", "raised"}) => UNCHANGED client_vars]_vars
    /\ <>(cpc \in {"returned", "raised"})

\* Two pages were requested in turn and the fetch returned the items of the
\* first followed by those of the second, on a body that ends the pages.
C30_Witness ==
    /\ cpc = "returned"
    /\ page = 2
    /\ Len(all_items) = 2
    /\ all_items[1].page = 1 /\ all_items[2].page = 2
    /\ NoFurtherPage(outcome.body)

\* ------------------------------------------------------------ normalizer
\* The amount and the fee the raw record gives.
GivenAmount == Get3(item, "btc_amount", "amount", "value")

GivenFee == Get3(item, "fee", "fee_btc", "fee_sats")

\* The value the threshold rule gives the number val.
ByThreshold(val) ==
    IF val.num > SatoshiThreshold THEN Decimal(val.num, -BtcExponent)
    ELSE Decimal(val.num, 0)

\* C21: once a record is normalized, a numeric amount or fee above 1000 has
\* been divided by 10^8 and one of 1000 or less has been kept as it is; a
\* record with fee_sats = 5000 and no amount field has fee_btc = 0.00005 and
\* btc_amount = 0.
C21_ThresholdRule ==
    npc = "done" =>
        /\ (IsNumber(GivenAmount) /\ item.sats = Absent /\ item.satoshis = Absent) =>
              normalized.btc_amount = ByThreshold(GivenAmount)
        /\ IsNumber(GivenFee) => normalized.fee_btc = ByThreshold(GivenFee)
        /\ (/\ item.fee_sats = [type |-> "int", num |-> 5000]
            /\ \A k \in 1 .. Len(AmountFields) : item[AmountFields[k]] = Absent) =>
              /\ normalized.fee_btc = [m |-> 5, e |-> -5]
              /\ normalized.btc_amount = [m |-> 0, e |-> 0]

=============================================================================
